---- MODULE Spec2Model ----
(***************************************************************************)
(* StudySwap marketplace (src/main.py, src/models.py): the commerce core   *)
(* cart -> checkout -> order items -> download / review, over the          *)
(* committed rows of the SQLite database and the per-request SQLAlchemy    *)
(* sessions of a pool of request workers.                                  *)
(*                                                                         *)
(* Money: StudyMaterial.price, OrderItem.price and Order.total_amount are  *)
(* whole price units; User.total_earnings is held in hundredths of a price *)
(* unit, so that `price * 0.8` is the integer price * RevenueSharePct.     *)
(* StudyMaterial.rating is the exact quotient sum/len, held as <<sum,len>>.*)
(*                                                                         *)
(* The users are registered and logged in; is_admin is never set.          *)
(*                                                                         *)
(* Storage, as the program configures it (sqlite:///studyswap.db through   *)
(* the SQLAlchemy ORM, one session per request):                           *)
(*  - a query reads the committed rows; what a session has loaded stays as *)
(*    loaded until the request ends;                                       *)
(*  - the first INSERT/UPDATE/DELETE of a session opens the one write      *)
(*    transaction the database admits (writer), which ends with the commit *)
(*    or the rollback;                                                     *)
(*  - cart_items has the primary key (user_id, material_id): inserting a   *)
(*    row twice raises IntegrityError;                                     *)
(*  - removing members of the cart relationship deletes their rows, and    *)
(*    the flush raises StaleDataError when a row is no longer there;       *)
(*  - an exception in a handler ends in the 500 handler, which rolls the   *)
(*    session back.                                                        *)
(***************************************************************************)
EXTENDS Integers, Sequences, FiniteSets, Bags, TLC

\* ---------------------------------------------------------------- bounds
NumUsers == 3
MaxMaterials == 2
NumWorkers == 2
MaxOrders == 2
MaxOrderItems == 2
MaxReviews == 2
MaxDownloadCount == 2

Users == 1..NumUsers
MaterialIds == 1..MaxMaterials
Workers == 1..NumWorkers
Prices == {10, 25}
\* The price field of the sell and edit forms as request.form.get('price',
\* type=float) reads it: any number, of either sign (no handler tests
\* it); here one price above zero and one below.
FormPrices == {-10, 10}
Methods == {"GET", "POST"}
\* The rating field of the review form as request.form.get('rating',
\* type=int) reads it: <<>> when it is missing or no integer (None), <<n>>
\* for the integer n.
RatingForms == {<<>>, <<-1>>, <<0>>, <<1>>, <<2>>, <<5>>, <<6>>}

\* ---------------------------------------------------- program constants
RevenueSharePct == 80
MinRating == 1
MaxRating == 5

VARIABLES
    materials,       \* study_material rows, indexed by id
    total_earnings,  \* user.total_earnings, per user id
    cart,            \* cart_items rows: bag of <<user_id, material_id>>
    orders,          \* order rows, indexed by id
    order_items,     \* order_item rows, indexed by id
    reviews,         \* review rows, indexed by id
    writer,          \* worker holding the database write transaction, or 0
    req              \* per worker: the request in progress and its session

vars == <<materials, total_earnings, cart, orders, order_items, reviews, writer, req>>
db == <<materials, total_earnings, cart, orders, order_items, reviews>>

\* ------------------------------------------------------------- helpers
RECURSIVE SumOver(_, _)
\* sum(f[x] for x in S)
SumOver(f, S) ==
    IF S = {} THEN 0
    ELSE LET x == CHOOSE y \in S : TRUE IN f[x] + SumOver(f, S \ {x})

\* A worker with no request in progress (a fresh, empty session).
NoRequest ==
    [pc |-> "idle", op |-> "none", user |-> 0, mat |-> 0, status |-> "none",
     snap |-> <<>>, todo |-> {}, total |-> 0, order |-> 0,
     new_items |-> <<>>, dl |-> <<>>, earn |-> <<>>,
     item |-> 0, val |-> 0, rating |-> <<0, 1>>, rating_count |-> 0]

Begin(op, u, m, pc) == [NoRequest EXCEPT !.pc = pc, !.op = op, !.user = u, !.mat = m]
\* The handler has returned: what the response tells (the flash status, the
\* redirect target, what the handler had loaded) until the response is sent.
Done(r, status) ==
    [NoRequest EXCEPT !.pc = "done", !.op = r.op, !.user = r.user, !.mat = r.mat,
                      !.status = status, !.order = r.order, !.snap = r.snap,
                      !.item = r.item, !.val = r.val]

IsIdle(w) == req[w].pc = "idle"
\* The database write lock is free for w (SQLite admits one write
\* transaction at a time).
CanWrite(w) == writer \in {0, w}

\* -------------------------------------------------------------- schema
\* StudyMaterial(...) with the column defaults of models.py
NewMaterial(u, p) ==
    [seller_id |-> u, price |-> p, downloads |-> 0,
     rating |-> <<0, 1>>, rating_count |-> 0, is_active |-> TRUE]

\* Order(...) as checkout builds it
NewOrder(u, total) == [buyer_id |-> u, total_amount |-> total, status |-> "completed"]

\* OrderItem(...) with the column defaults of models.py; last_download is
\* 0 for NULL and 1 once a timestamp has been stored.
NewOrderItem(o, m, p) ==
    [order_id |-> o, material_id |-> m, price |-> p, download_count |-> 0, last_download |-> 0]

\* Review(...) as add_review builds it
NewReview(m, u, rating) == [material_id |-> m, reviewer_id |-> u, rating |-> rating]

Init ==
    /\ materials = <<>>
    /\ total_earnings = [u \in Users |-> 0]
    /\ cart = EmptyBag
    /\ orders = <<>>
    /\ order_items = <<>>
    /\ reviews = <<>>
    /\ writer = 0
    /\ req = [w \in Workers |-> NoRequest]

\* ------------------------------------------------------ sell / edit
\* POST /sell: a new active material of the current user, committed.
sell(w, u, p) ==
    /\ IsIdle(w) /\ CanWrite(w)
    /\ Len(materials) < MaxMaterials
    /\ materials' = Append(materials, NewMaterial(u, p))
    /\ req' = [req EXCEPT ![w] = Done(Begin("sell", u, Len(materials) + 1, "idle"), "success")]
    /\ UNCHANGED <<total_earnings, cart, orders, order_items, reviews, writer>>

\* An edit that would carry the new price into the items already sold.
edit_material_reprices_orders(w, u, m, p) ==
    /\ IsIdle(w) /\ CanWrite(w)
    /\ m \in DOMAIN materials
    /\ IF materials[m].seller_id # u
         THEN /\ req' = [req EXCEPT ![w] = Done(Begin("edit_material", u, m, "idle"), "error")]
              /\ UNCHANGED <<materials, order_items>>
         ELSE /\ materials' = [materials EXCEPT ![m].price = p]
              /\ order_items' = [i \in DOMAIN order_items |->
                    IF order_items[i].material_id = m
                      THEN [order_items[i] EXCEPT !.price = p]
                      ELSE order_items[i]]
              /\ req' = [req EXCEPT ![w] = Done(Begin("edit_material", u, m, "idle"), "success")]
    /\ UNCHANGED <<total_earnings, cart, orders, reviews, writer>>

\* POST /material/<id>/edit: only the seller may edit (is_admin is never
\* set by the program); the price is overwritten and committed.
edit_material(w, u, m, p) ==
    /\ IsIdle(w) /\ CanWrite(w)
    /\ m \in DOMAIN materials
    /\ IF materials[m].seller_id # u
         THEN /\ req' = [req EXCEPT ![w] = Done(Begin("edit_material", u, m, "idle"), "error")]
              /\ UNCHANGED materials
         ELSE /\ materials' = [materials EXCEPT ![m].price = p]
              /\ req' = [req EXCEPT ![w] = Done(Begin("edit_material", u, m, "idle"), "success")]
    /\ UNCHANGED <<total_earnings, cart, orders, order_items, reviews, writer>>

\* POST /material/<id>/delete: soft delete by the seller.
delete_material(w, u, m) ==
    /\ IsIdle(w) /\ CanWrite(w)
    /\ m \in DOMAIN materials
    /\ IF materials[m].seller_id # u
         THEN /\ req' = [req EXCEPT ![w] = Done(Begin("delete_material", u, m, "idle"), "error")]
              /\ UNCHANGED materials
         ELSE /\ materials' = [materials EXCEPT ![m].is_active = FALSE]
              /\ req' = [req EXCEPT ![w] = Done(Begin("delete_material", u, m, "idle"), "success")]
    /\ UNCHANGED <<total_earnings, cart, orders, order_items, reviews, writer>>

\* ---------------------------------------------------------------- cart
\* The materials of u's cart, as `current_user.cart` loads them.
CartOf(u) == {m \in DOMAIN materials : BagIn(<<u, m>>, cart)}

\* sum(item.price for item in current_user.cart): the live cart total
CartTotal(u) == SumOver([m \in CartOf(u) |-> materials[m].price], CartOf(u))

\* add_to_cart_check without the test of lines 429-431.
add_to_cart_check_no_self_test(w, u, m) ==
    /\ IsIdle(w)
    /\ m \in DOMAIN materials
    /\ req' = [req EXCEPT ![w] =
          IF m \in CartOf(u)
            THEN Done(Begin("add_to_cart", u, m, "idle"), "info")
          ELSE Begin("add_to_cart", u, m, "cart_append")]
    /\ UNCHANGED <<db, writer>>

\* add_to_cart_check without the membership test of line 433: the append
\* is always pending.
add_to_cart_check_no_member_test(w, u, m) ==
    /\ IsIdle(w)
    /\ m \in DOMAIN materials
    /\ req' = [req EXCEPT ![w] =
          IF materials[m].seller_id = u
            THEN Done(Begin("add_to_cart", u, m, "idle"), "error")
          ELSE Begin("add_to_cart", u, m, "cart_append")]
    /\ UNCHANGED <<db, writer>>

\* add_to_cart up to the membership test: self-purchase is refused, a
\* material already in the loaded cart is reported, otherwise the append
\* is pending.
add_to_cart_check(w, u, m) ==
    /\ IsIdle(w)
    /\ m \in DOMAIN materials
    /\ req' = [req EXCEPT ![w] =
          IF materials[m].seller_id = u
            THEN Done(Begin("add_to_cart", u, m, "idle"), "error")
          ELSE IF m \in CartOf(u)
            THEN Done(Begin("add_to_cart", u, m, "idle"), "info")
          ELSE Begin("add_to_cart", u, m, "cart_append")]
    /\ UNCHANGED <<db, writer>>

\* current_user.cart.append(material); db.session.commit(): INSERT into
\* cart_items, whose primary key (user_id, material_id) refuses a row that
\* is already there (IntegrityError, the request rolls back).
add_to_cart_commit(w) ==
    LET r == req[w] IN
    /\ r.pc = "cart_append" /\ CanWrite(w)
    /\ IF BagIn(<<r.user, r.mat>>, cart)
         THEN /\ req' = [req EXCEPT ![w] = Done(r, "error")]
              /\ UNCHANGED cart
         ELSE /\ cart' = cart (+) SetToBag({<<r.user, r.mat>>})
              /\ req' = [req EXCEPT ![w] = Done(r, "success")]
    /\ UNCHANGED <<materials, total_earnings, orders, order_items, reviews, writer>>

\* remove_from_cart up to the membership test.
remove_from_cart_check(w, u, m) ==
    /\ IsIdle(w)
    /\ m \in DOMAIN materials
    /\ req' = [req EXCEPT ![w] =
          IF m \in CartOf(u)
            THEN Begin("remove_from_cart", u, m, "cart_remove")
            ELSE Done(Begin("remove_from_cart", u, m, "idle"), "none")]
    /\ UNCHANGED <<db, writer>>

\* current_user.cart.remove(material); db.session.commit(): DELETE of the
\* cart_items row; the ORM expects the row to be there (StaleDataError
\* otherwise, the request rolls back).
remove_from_cart_commit(w) ==
    LET r == req[w] IN
    /\ r.pc = "cart_remove" /\ CanWrite(w)
    /\ IF BagIn(<<r.user, r.mat>>, cart)
         THEN /\ cart' = cart (-) SetToBag({<<r.user, r.mat>>})
              /\ req' = [req EXCEPT ![w] = Done(r, "success")]
         ELSE /\ req' = [req EXCEPT ![w] = Done(r, "error")]
              /\ UNCHANGED cart
    /\ UNCHANGED <<materials, total_earnings, orders, order_items, reviews, writer>>

\* A checkout that would not test for the empty cart.
checkout_load_no_empty_test(w, u, method) ==
    /\ IsIdle(w)
    /\ Len(orders) < MaxOrders
    /\ Len(order_items) + Cardinality(CartOf(u)) <= MaxOrderItems
    /\ LET snap == [m \in CartOf(u) |-> [price |-> materials[m].price,
                                         downloads |-> materials[m].downloads]]
           r == [Begin("checkout", u, 0, "checkout_post") EXCEPT !.snap = snap]
       IN req' = [req EXCEPT ![w] = IF method = "GET" THEN Done(r, "render") ELSE r]
    /\ UNCHANGED <<db, writer>>

\* ------------------------------------------------------------ checkout
\* checkout, lines 460-465: the cart is loaded into the session (with the
\* price and downloads of each material as they are now); an empty cart is
\* refused whatever the method, a GET renders the page.
checkout_load(w, u, method) ==
    /\ IsIdle(w)
    /\ Len(orders) < MaxOrders
    /\ Len(order_items) + Cardinality(CartOf(u)) <= MaxOrderItems
    /\ LET snap == [m \in CartOf(u) |->
                       [price |-> materials[m].price, downloads |-> materials[m].downloads]]
           r == [Begin("checkout", u, 0, "checkout_post") EXCEPT !.snap = snap]
       IN req' = [req EXCEPT ![w] =
             IF CartOf(u) = {} THEN Done(r, "error")
             ELSE IF method = "GET" THEN Done(r, "render")
             ELSE r]
    /\ UNCHANGED <<db, writer>>

\* checkout_flush with db.session.commit() in the place of the flush: the
\* Order row is committed before its items.
checkout_flush_commits(w) ==
    LET r == req[w] IN
    /\ r.pc = "checkout_post" /\ CanWrite(w)
    /\ writer' = w
    /\ orders' = Append(orders,
          NewOrder(r.user, SumOver([m \in DOMAIN r.snap |-> r.snap[m].price], DOMAIN r.snap)))
    /\ req' = [req EXCEPT ![w] =
          [r EXCEPT !.pc = "checkout_items",
                    !.total = SumOver([m \in DOMAIN r.snap |-> r.snap[m].price], DOMAIN r.snap),
                    !.order = Len(orders) + 1,
                    !.todo = DOMAIN r.snap]]
    /\ UNCHANGED <<materials, total_earnings, cart, order_items, reviews>>

\* lines 467-479: the total of the loaded prices; the Order is added and
\* flushed, which opens the write transaction and assigns order.id. The row
\* is not committed.
checkout_flush(w) ==
    LET r == req[w] IN
    /\ r.pc = "checkout_post" /\ CanWrite(w)
    /\ writer' = w
    /\ req' = [req EXCEPT ![w] =
          [r EXCEPT !.pc = "checkout_items",
                    !.total = SumOver([m \in DOMAIN r.snap |-> r.snap[m].price], DOMAIN r.snap),
                    !.order = Len(orders) + 1,
                    !.todo = DOMAIN r.snap]]
    /\ UNCHANGED db

\* checkout_item with `=` in the place of `+=` on total_earnings.
checkout_item_overwrites_earnings(w) ==
    LET r == req[w] IN
    /\ r.pc = "checkout_items" /\ r.todo # {}
    /\ \E m \in r.todo :
         LET p == r.snap[m].price
             s == materials[m].seller_id
         IN req' = [req EXCEPT ![w] =
               [r EXCEPT !.todo = r.todo \ {m},
                         !.new_items = Append(r.new_items, [material_id |-> m, price |-> p]),
                         !.dl = [x \in DOMAIN r.dl \cup {m} |->
                                   IF x = m THEN r.snap[m].downloads + 1 ELSE r.dl[x]],
                         !.earn = [x \in DOMAIN r.earn \cup {s} |->
                                   IF x = s THEN p * RevenueSharePct ELSE r.earn[x]]]]
    /\ UNCHANGED <<db, writer>>

\* checkout_item that stores the price of the last item it has seen in
\* every OrderItem of the order (one price variable shared by the loop).
checkout_item_shared_price(w) ==
    LET r == req[w] IN
    /\ r.pc = "checkout_items" /\ r.todo # {}
    /\ \E m \in r.todo :
         LET p == r.snap[m].price
             s == materials[m].seller_id
             had == IF s \in DOMAIN r.earn THEN r.earn[s] ELSE total_earnings[s]
         IN req' = [req EXCEPT ![w] =
               [r EXCEPT !.todo = r.todo \ {m},
                         !.new_items = [i \in 1..Len(r.new_items) |->
                                          [r.new_items[i] EXCEPT !.price = p]]
                                       \o <<[material_id |-> m, price |-> p]>>,
                         !.dl = [x \in DOMAIN r.dl \cup {m} |->
                                   IF x = m THEN r.snap[m].downloads + 1 ELSE r.dl[x]],
                         !.earn = [x \in DOMAIN r.earn \cup {s} |->
                                   IF x = s THEN had + p * RevenueSharePct ELSE r.earn[x]]]]
    /\ UNCHANGED <<db, writer>>

\* lines 482-490, one iteration: an OrderItem at the loaded price is added
\* to the session, the loaded downloads counter is incremented and the
\* seller (loaded inside the write transaction on first use) is credited.
checkout_item(w) ==
    LET r == req[w] IN
    /\ r.pc = "checkout_items" /\ r.todo # {}
    /\ \E m \in r.todo :
         LET p == r.snap[m].price
             s == materials[m].seller_id
             had == IF s \in DOMAIN r.earn THEN r.earn[s] ELSE total_earnings[s]
         IN req' = [req EXCEPT ![w] =
               [r EXCEPT !.todo = r.todo \ {m},
                         !.new_items = Append(r.new_items, [material_id |-> m, price |-> p]),
                         !.dl = [x \in DOMAIN r.dl \cup {m} |->
                                   IF x = m THEN r.snap[m].downloads + 1 ELSE r.dl[x]],
                         !.earn = [x \in DOMAIN r.earn \cup {s} |->
                                   IF x = s THEN had + p * RevenueSharePct ELSE r.earn[x]]]]
    /\ UNCHANGED <<db, writer>>

\* checkout_commit that deletes the cart rows with a plain DELETE, which
\* does not care how many rows it matches.
checkout_commit_plain_delete(w) ==
    LET r == req[w]
        rows == {<<r.user, m>> : m \in DOMAIN r.snap}
    IN
    /\ r.pc = "checkout_items" /\ r.todo = {}
    /\ writer' = 0
    /\ orders' = Append(orders, NewOrder(r.user, r.total))
    /\ order_items' = order_items \o
          [i \in 1..Len(r.new_items) |->
              NewOrderItem(r.order, r.new_items[i].material_id, r.new_items[i].price)]
    /\ materials' = [m \in DOMAIN materials |->
          IF m \in DOMAIN r.dl
            THEN [materials[m] EXCEPT !.downloads = r.dl[m]]
            ELSE materials[m]]
    /\ total_earnings' = [u \in Users |->
          IF u \in DOMAIN r.earn THEN r.earn[u] ELSE total_earnings[u]]
    /\ cart' = [row \in DOMAIN cart \ rows |-> cart[row]]
    /\ req' = [req EXCEPT ![w] = Done(r, "success")]
    /\ UNCHANGED reviews

\* lines 493-494: current_user.cart = [] and the commit. The flush
\* inserts the items, updates the dirty counters and deletes the cart_items
\* rows of the loaded cart; the ORM expects every one of these rows to be
\* there (StaleDataError otherwise, and the transaction rolls back).
checkout_commit(w) ==
    LET r == req[w]
        rows == {<<r.user, m>> : m \in DOMAIN r.snap}
    IN
    /\ r.pc = "checkout_items" /\ r.todo = {}
    /\ writer' = 0
    /\ IF \A row \in rows : BagIn(row, cart)
         THEN /\ orders' = Append(orders, NewOrder(r.user, r.total))
              /\ order_items' = order_items \o
                    [i \in 1..Len(r.new_items) |->
                        NewOrderItem(r.order, r.new_items[i].material_id, r.new_items[i].price)]
              /\ materials' = [m \in DOMAIN materials |->
                    IF m \in DOMAIN r.dl
                      THEN [materials[m] EXCEPT !.downloads = r.dl[m]]
                      ELSE materials[m]]
              /\ total_earnings' = [u \in Users |->
                    IF u \in DOMAIN r.earn THEN r.earn[u] ELSE total_earnings[u]]
              /\ cart' = cart (-) SetToBag(rows)
              /\ req' = [req EXCEPT ![w] = Done(r, "success")]
              /\ UNCHANGED reviews
         ELSE /\ req' = [req EXCEPT ![w] = Done([r EXCEPT !.order = 0], "error")]
              /\ UNCHANGED db

\* A failure after the flush and before the commit (an exception in the
\* handler, a storage error): the 500 handler rolls the session back.
internal_error(w) ==
    LET r == req[w] IN
    /\ r.pc = "checkout_items"
    /\ writer' = 0
    /\ req' = [req EXCEPT ![w] = Done([r EXCEPT !.order = 0], "failed")]
    /\ UNCHANGED db

\* ------------------------------------------------------------ download
\* The query without its buyer_id filter.
PurchasedItems_any_buyer(u, m) ==
    {i \in DOMAIN order_items :
        /\ order_items[i].material_id = m
        /\ orders[order_items[i].order_id].status = "completed"}

\* The OrderItem rows of OrderItem.query.join(Order).filter(buyer_id == u,
\* material_id == m, status == 'completed').
PurchasedItems(u, m) ==
    {i \in DOMAIN order_items :
        /\ order_items[i].material_id = m
        /\ orders[order_items[i].order_id].buyer_id = u
        /\ orders[order_items[i].order_id].status = "completed"}

\* download_material, lines 527-537 and 544-553: the seller is served at
\* once; otherwise .first() of the purchased items (the query has no ORDER
\* BY: any of them) is loaded, and without one the download is denied.
download_check(w, u, m) ==
    /\ IsIdle(w)
    /\ m \in DOMAIN materials
    /\ LET r == Begin("download_material", u, m, "download_count") IN
       IF materials[m].seller_id = u
         THEN req' = [req EXCEPT ![w] = Done(r, "served")]
       ELSE IF PurchasedItems(u, m) = {}
         THEN req' = [req EXCEPT ![w] = Done(r, "denied")]
       ELSE \E i \in PurchasedItems(u, m) :
              /\ order_items[i].download_count < MaxDownloadCount
              /\ req' = [req EXCEPT ![w] =
                    [r EXCEPT !.item = i, !.val = order_items[i].download_count]]
    /\ UNCHANGED <<db, writer>>

\* lines 539-542 and 548: the loaded download_count plus one and the
\* timestamp are written and committed, then the file is served.
download_commit(w) ==
    LET r == req[w] IN
    /\ r.pc = "download_count" /\ CanWrite(w)
    /\ order_items' = [order_items EXCEPT ![r.item].download_count = r.val + 1,
                                          ![r.item].last_download = 1]
    /\ req' = [req EXCEPT ![w] = Done(r, "served")]
    /\ UNCHANGED <<materials, total_earnings, cart, orders, reviews, writer>>

\* -------------------------------------------------------------- review
\* A validation that would lack the test `rating > 5`.
ValidRating_no_upper_bound(form) ==
    /\ Len(form) = 1
    /\ form[1] # 0
    /\ ~(form[1] < MinRating)

\* `not rating or rating < 1 or rating > 5` is false
ValidRating(form) ==
    /\ Len(form) = 1
    /\ form[1] # 0
    /\ ~(form[1] < MinRating)
    /\ ~(form[1] > MaxRating)

\* The Review rows of material m
ReviewsOf(m) == {i \in DOMAIN reviews : reviews[i].material_id = m}

\* Review.query.filter_by(material_id=m, reviewer_id=u)
ReviewsBy(u, m) == {i \in ReviewsOf(m) : reviews[i].reviewer_id = u}

\* review_check without the test of lines 573-580.
review_check_no_duplicate_test(w, u, m, form) ==
    /\ IsIdle(w)
    /\ m \in DOMAIN materials
    /\ Len(reviews) < MaxReviews
    /\ LET r == Begin("add_review", u, m, "review_insert") IN
       req' = [req EXCEPT ![w] =
          IF PurchasedItems(u, m) = {} THEN Done(r, "not_entitled")
          ELSE IF ~ValidRating(form) THEN Done(r, "invalid")
          ELSE [r EXCEPT !.val = form[1]]]
    /\ UNCHANGED <<db, writer>>

\* review_check gated by the download entitlement (seller or purchaser)
\* in the place of the purchase query of lines 563-571.
review_check_has_access(w, u, m, form) ==
    /\ IsIdle(w)
    /\ m \in DOMAIN materials
    /\ Len(reviews) < MaxReviews
    /\ LET r == Begin("add_review", u, m, "review_insert") IN
       req' = [req EXCEPT ![w] =
          IF materials[m].seller_id # u /\ PurchasedItems(u, m) = {}
            THEN Done(r, "not_entitled")
          ELSE IF ReviewsBy(u, m) # {} THEN Done(r, "duplicate")
          ELSE IF ~ValidRating(form) THEN Done(r, "invalid")
          ELSE [r EXCEPT !.val = form[1]]]
    /\ UNCHANGED <<db, writer>>

\* add_review, lines 561-587: the three refusals, in the order of the code.
review_check(w, u, m, form) ==
    /\ IsIdle(w)
    /\ m \in DOMAIN materials
    /\ Len(reviews) < MaxReviews
    /\ LET r == Begin("add_review", u, m, "review_insert") IN
       req' = [req EXCEPT ![w] =
          IF PurchasedItems(u, m) = {} THEN Done(r, "not_entitled")
          ELSE IF ReviewsBy(u, m) # {} THEN Done(r, "duplicate")
          ELSE IF ~ValidRating(form) THEN Done(r, "invalid")
          ELSE [r EXCEPT !.val = form[1]]]
    /\ UNCHANGED <<db, writer>>

\* lines 589-598: the Review is inserted and committed.
review_insert(w) ==
    LET r == req[w] IN
    /\ r.pc = "review_insert" /\ CanWrite(w)
    /\ reviews' = Append(reviews, NewReview(r.mat, r.user, r.val))
    /\ req' = [req EXCEPT ![w] = [r EXCEPT !.pc = "review_rating"]]
    /\ UNCHANGED <<materials, total_earnings, cart, orders, order_items, writer>>

\* update_rating with the floor division `//` in the place of `/`.
update_rating_floor(m) ==
    IF ReviewsOf(m) # {}
      THEN [rating |-> <<SumOver([i \in ReviewsOf(m) |-> reviews[i].rating], ReviewsOf(m))
                            \div Cardinality(ReviewsOf(m)), 1>>,
            rating_count |-> Cardinality(ReviewsOf(m))]
      ELSE [rating |-> <<0, 1>>, rating_count |-> 0]

\* StudyMaterial.update_rating (models.py): the mean and the count of the
\* reviews of m as the database has them now, <<0, 1>> and 0 without one.
update_rating(m) ==
    IF ReviewsOf(m) # {}
      THEN [rating |-> <<SumOver([i \in ReviewsOf(m) |-> reviews[i].rating], ReviewsOf(m)),
                         Cardinality(ReviewsOf(m))>>,
            rating_count |-> Cardinality(ReviewsOf(m))]
      ELSE [rating |-> <<0, 1>>, rating_count |-> 0]

\* line 600: material.update_rating() sets the two attributes in the
\* session.
review_recompute(w) ==
    LET r == req[w] IN
    /\ r.pc = "review_rating"
    /\ req' = [req EXCEPT ![w] =
          [r EXCEPT !.pc = "review_commit",
                    !.rating = update_rating(r.mat).rating,
                    !.rating_count = update_rating(r.mat).rating_count]]
    /\ UNCHANGED <<db, writer>>

\* line 601: the two attributes are written and committed.
review_commit(w) ==
    LET r == req[w] IN
    /\ r.pc = "review_commit" /\ CanWrite(w)
    /\ materials' = [materials EXCEPT ![r.mat].rating = r.rating,
                                      ![r.mat].rating_count = r.rating_count]
    /\ req' = [req EXCEPT ![w] = Done(r, "success")]
    /\ UNCHANGED <<total_earnings, cart, orders, order_items, reviews, writer>>

\* The response is sent and the session is discarded.
Return(w) ==
    /\ req[w].pc = "done"
    /\ req' = [req EXCEPT ![w] = NoRequest]
    /\ UNCHANGED <<db, writer>>

\* The requests of the catalogue: upload and edit.
CatalogStep(w) ==
    \/ \E u \in Users, p \in Prices : sell(w, u, p)
    \/ \E u \in Users, m \in MaterialIds, p \in Prices : edit_material(w, u, m, p)

\* The requests of the cart.
CartStep(w) ==
    \/ \E u \in Users, m \in MaterialIds : add_to_cart_check(w, u, m)
    \/ add_to_cart_commit(w)
    \/ \E u \in Users, m \in MaterialIds : remove_from_cart_check(w, u, m)
    \/ remove_from_cart_commit(w)

\* The checkout request, step by step, and its failure.
CheckoutStep(w) ==
    \/ \E u \in Users, method \in Methods : checkout_load(w, u, method)
    \/ checkout_flush(w)
    \/ checkout_item(w)
    \/ checkout_commit(w)
    \/ internal_error(w)

\* The download request.
DownloadStep(w) ==
    \/ \E u \in Users, m \in MaterialIds : download_check(w, u, m)
    \/ download_commit(w)

\* The review request.
ReviewStep(w) ==
    \/ \E u \in Users, m \in MaterialIds, form \in RatingForms : review_check(w, u, m, form)
    \/ review_insert(w)
    \/ review_recompute(w)
    \/ review_commit(w)

\* The purchase flow served by one worker, one request at a time
\* (non-overlapping operations), from the empty database.
Next ==
    \/ CatalogStep(1)
    \/ CartStep(1)
    \/ CheckoutStep(1)
    \/ Return(1)
Spec == Init /\ [][Next]_vars

\* A database with two materials on sale: material 1 of user 1 and
\* material 2 of user 2; user 3 sells nothing.
InitCatalog ==
    /\ materials = <<NewMaterial(1, 10), NewMaterial(2, 25)>>
    /\ total_earnings = [u \in Users |-> 0]
    /\ cart = EmptyBag
    /\ orders = <<>>
    /\ order_items = <<>>
    /\ reviews = <<>>
    /\ writer = 0
    /\ req = [w \in Workers |-> NoRequest]

\* Purchase, download and review served by one worker, one request at a
\* time, over the two materials on sale.
NextAccess ==
    \/ \E u \in Users, m \in MaterialIds : add_to_cart_check(1, u, m)
    \/ add_to_cart_commit(1)
    \/ CheckoutStep(1)
    \/ DownloadStep(1)
    \/ ReviewStep(1)
    \/ Return(1)
SpecAccess == InitCatalog /\ [][NextAccess]_vars

\* Add-to-cart and checkout requests of all the workers, interleaved at their
\* database statements, over the two materials on sale.
NextConc ==
    \E w \in Workers :
        \/ \E u \in Users, m \in MaterialIds : add_to_cart_check(w, u, m)
        \/ add_to_cart_commit(w)
        \/ CheckoutStep(w)
        \/ Return(w)
SpecConc == InitCatalog /\ [][NextConc]_vars

\* The database after users 2 and 3 have each bought material 1 (price 10)
\* from user 1 in an order of their own: two completed orders of one item,
\* two downloads counted by checkout, 2 * 80% of 10 credited to the seller.
InitPurchased ==
    /\ materials = <<[NewMaterial(1, 10) EXCEPT !.downloads = 2], NewMaterial(2, 25)>>
    /\ total_earnings = [u \in Users |-> IF u = 1 THEN 2 * 10 * RevenueSharePct ELSE 0]
    /\ cart = EmptyBag
    /\ orders = <<NewOrder(2, 10), NewOrder(3, 10)>>
    /\ order_items = <<NewOrderItem(1, 1, 10), NewOrderItem(2, 1, 10)>>
    /\ reviews = <<>>
    /\ writer = 0
    /\ req = [w \in Workers |-> NoRequest]

\* Download and review requests of all the workers, interleaved at their
\* database statements, after the two purchases.
NextConcAccess ==
    \E w \in Workers :
        \/ DownloadStep(w)
        \/ ReviewStep(w)
        \/ Return(w)
SpecConcAccess == InitPurchased /\ [][NextConcAccess]_vars

\* Edit, soft delete, add-to-cart and checkout served by one worker, one
\* request at a time, over the two materials on sale.
NextHistory ==
    \/ \E u \in Users, m \in MaterialIds, p \in Prices : edit_material(1, u, m, p)
    \/ \E u \in Users, m \in MaterialIds : delete_material(1, u, m)
    \/ \E u \in Users, m \in MaterialIds : add_to_cart_check(1, u, m)
    \/ add_to_cart_commit(1)
    \/ CheckoutStep(1)
    \/ Return(1)
SpecHistory == InitCatalog /\ [][NextHistory]_vars

\* The purchase flow served by one worker, one request at a time, from the
\* empty database, with every price the sell and edit forms let through.
NextForm ==
    \/ \E u \in Users, p \in FormPrices : sell(1, u, p)
    \/ \E u \in Users, m \in MaterialIds, p \in FormPrices : edit_material(1, u, m, p)
    \/ \E u \in Users, m \in MaterialIds : add_to_cart_check(1, u, m)
    \/ add_to_cart_commit(1)
    \/ CheckoutStep(1)
    \/ Return(1)
SpecForm == Init /\ [][NextForm]_vars

\* ------------------------------------------------------------- claims
\* The OrderItem rows of order o
ItemsOf(o) == {i \in DOMAIN order_items : order_items[i].order_id = o}

\* This step commits, as one whole, a checkout of worker w: the new Order
\* of the buyer, one new OrderItem per material of the buyer's cart, the
\* downloads increments, the credits of the sellers and the empty cart.
CheckoutCommittedWhole(w) ==
    LET u == req[w].user
        o == Len(orders) + 1
        bought == CartOf(u)
        added == DOMAIN order_items' \ DOMAIN order_items
    IN /\ req[w].op = "checkout" /\ bought # {}
       /\ Len(orders') = o /\ orders'[o].buyer_id = u
       /\ \A k \in DOMAIN orders : orders'[k] = orders[k]
       /\ Len(order_items') = Len(order_items) + Cardinality(bought)
       /\ \A i \in DOMAIN order_items : order_items'[i] = order_items[i]
       /\ \A i \in added : order_items'[i].order_id = o
       /\ {order_items'[i].material_id : i \in added} = bought
       /\ \A m \in bought : materials'[m].downloads = materials[m].downloads + 1
       /\ \A m \in bought :
            total_earnings'[materials[m].seller_id] > total_earnings[materials[m].seller_id]
       /\ \A m \in DOMAIN materials : ~BagIn(<<u, m>>, cart')

\* This step commits nothing of a checkout.
CheckoutCommittedNothing ==
    /\ order_items' = order_items
    /\ \A m \in DOMAIN materials : materials'[m].downloads = materials[m].downloads
    /\ total_earnings' = total_earnings
    /\ (\E w \in Workers : req[w].op = "checkout") => cart' = cart

\* C1: checkout is all-or-nothing. Every step either commits a whole
\* checkout (Order, one OrderItem per cart material, downloads increments,
\* seller credits, emptied cart) or commits none of these; the Order of a
\* checkout that has flushed but not committed is not among the committed
\* orders; and a checkout that fails leaves the database unchanged.
C1_CheckoutAllOrNothing ==
    [][ /\ IF orders' # orders
             THEN \E w \in Workers : CheckoutCommittedWhole(w)
             ELSE CheckoutCommittedNothing
        /\ \A w \in Workers :
             req'[w].pc = "checkout_items" => req'[w].order \notin DOMAIN orders'
        /\ \A w \in Workers :
             (req'[w].op = "checkout" /\ req'[w].status \in {"failed", "error"})
                => UNCHANGED db
      ]_vars

\* A checkout has failed after its flush, after an earlier checkout went
\* through: one order is committed and the cart of the failed one is intact.
C1_Witness ==
    \E w \in Workers :
        /\ req[w].op = "checkout" /\ req[w].status = "failed"
        /\ Len(orders) = 1
        /\ CartOf(req[w].user) = DOMAIN req[w].snap

\* C2: a successful checkout leaves the buyer's cart empty and a new Order
\* of the buyer with status 'completed', with exactly one OrderItem per
\* material that was in the cart, each at the price the material had at
\* that moment, and the item prices sum up to Order.total_amount.
C2_CheckoutPostcondition ==
    [][ \A w \in Workers :
          (req[w].op = "checkout" /\ req[w].pc # "done" /\ req'[w].status = "success") =>
            LET u == req[w].user
                o == req'[w].order
                bought == CartOf(u)
                items == {i \in DOMAIN order_items' : order_items'[i].order_id = o}
            IN /\ CartOf(u)' = {}
               /\ o \in DOMAIN orders' /\ o \notin DOMAIN orders
               /\ orders'[o].status = "completed"
               /\ orders'[o].buyer_id = u
               /\ Cardinality(items) = Cardinality(bought)
               /\ \A m \in bought : \E i \in items :
                     /\ order_items'[i].material_id = m
                     /\ order_items'[i].price = materials[m].price
               /\ SumOver([i \in items |-> order_items'[i].price], items)
                     = orders'[o].total_amount
      ]_vars

\* A checkout of a cart of two materials of different prices has succeeded.
C2_Witness ==
    \E w \in Workers :
        /\ req[w].op = "checkout" /\ req[w].status = "success"
        /\ Cardinality(ItemsOf(req[w].order)) = 2
        /\ \E i, j \in ItemsOf(req[w].order) : order_items[i].price # order_items[j].price

\* u has a completed Order that contains an OrderItem for m.
Purchased(u, m) ==
    \E o \in DOMAIN orders, i \in DOMAIN order_items :
        /\ orders[o].buyer_id = u /\ orders[o].status = "completed"
        /\ order_items[i].order_id = o /\ order_items[i].material_id = m

\* has_access of the specification: the seller, or a purchaser.
HasAccess(u, m) == materials[m].seller_id = u \/ Purchased(u, m)

\* C3: download_material(U, M) serves the file if and only if U is M's
\* seller or has a completed Order with an OrderItem for M; otherwise it is
\* denied and nothing in the database changes.
C3_DownloadIffAccess ==
    [][ \A w \in Workers :
          (req'[w].op = "download_material" /\ req'[w].pc = "done" /\ req[w].pc # "done") =>
            LET u == req'[w].user
                m == req'[w].mat
            IN /\ req'[w].status \in {"served", "denied"}
               /\ req'[w].status = "served" <=> HasAccess(u, m)
               /\ req'[w].status = "denied" => UNCHANGED db
               /\ materials[m].seller_id = u => req'[w].status = "served"
      ]_vars

\* A user is denied a material that another user has purchased.
C3_Witness ==
    \E w \in Workers :
        /\ req[w].op = "download_material" /\ req[w].status = "denied"
        /\ \E u \in Users : Purchased(u, req[w].mat)

\* C4: when no add_review is between its two commits, every material's
\* rating is the arithmetic mean of the ratings of its Reviews (0 without
\* any) and its rating_count is their number.
C4_RatingIsMean ==
    (\A w \in Workers : req[w].pc \notin {"review_rating", "review_commit"}) =>
        \A m \in DOMAIN materials :
            LET R == {i \in DOMAIN reviews : reviews[i].material_id = m}
                n == Cardinality(R)
                total == SumOver([i \in R |-> reviews[i].rating], R)
                rating == materials[m].rating
            IN /\ materials[m].rating_count = n
               /\ rating[2] > 0
               /\ IF n = 0 THEN rating[1] = 0
                           ELSE rating[1] * n = total * rating[2]

\* A material has two reviews whose mean is no integer (3/2).
C4_Witness ==
    /\ \A w \in Workers : req[w].pc = "idle"
    /\ \E m \in DOMAIN materials :
          /\ materials[m].rating_count = 2
          /\ 2 * materials[m].rating[1] = 3 * materials[m].rating[2]

\* A Review of material m by user u exists.
Reviewed(u, m) ==
    \E i \in DOMAIN reviews : reviews[i].material_id = m /\ reviews[i].reviewer_id = u

\* C5: an add_review(U, M) that finds a Review of M by U is rejected as a
\* duplicate and changes nothing; and no two Reviews share material and
\* reviewer.
C5_DuplicateReviewRejected ==
    [][ /\ \A w \in Workers :
             (req[w].pc = "idle" /\ req'[w].op = "add_review"
                 /\ Reviewed(req'[w].user, req'[w].mat)) =>
               /\ req'[w].pc = "done" /\ req'[w].status = "duplicate"
               /\ UNCHANGED db
        /\ \A i, j \in DOMAIN reviews' :
             (reviews'[i].material_id = reviews'[j].material_id
                 /\ reviews'[i].reviewer_id = reviews'[j].reviewer_id) => i = j
      ]_vars

\* A second review of the same pair has been rejected.
C5_Witness ==
    \E w \in Workers :
        /\ req[w].op = "add_review" /\ req[w].status = "duplicate"
        /\ Reviewed(req[w].user, req[w].mat)

\* C6: add_to_cart(U, M) of a material that U sells is refused with an
\* error and leaves the cart unchanged; and no cart ever holds a material
\* of its own user.
C6_NoSelfPurchase ==
    [][ /\ \A w \in Workers :
             (req[w].pc = "idle" /\ req'[w].op = "add_to_cart"
                 /\ materials[req'[w].mat].seller_id = req'[w].user) =>
               /\ req'[w].pc = "done" /\ req'[w].status = "error"
               /\ cart' = cart
        /\ \A u \in Users, m \in DOMAIN materials' :
             BagIn(<<u, m>>, cart') => materials'[m].seller_id # u
      ]_vars

\* A seller has been refused their own material.
C6_Witness ==
    \E w \in Workers :
        /\ req[w].op = "add_to_cart" /\ req[w].status = "error"
        /\ materials[req[w].mat].seller_id = req[w].user

\* C7: add_to_cart is idempotent. A completed add_to_cart(U, M) of a
\* material U does not sell leaves M in U's cart exactly once; repeated in
\* that state it reports "already there" and leaves the cart as it is; and
\* no cart ever holds a material twice.
C7_AddToCartIdempotent ==
    [][ /\ \A w \in Workers :
             (req[w].pc = "idle" /\ req'[w].op = "add_to_cart"
                 /\ BagIn(<<req'[w].user, req'[w].mat>>, cart)) =>
               /\ req'[w].pc = "done" /\ req'[w].status = "info"
               /\ cart' = cart
        /\ \A w \in Workers :
             (req'[w].op = "add_to_cart" /\ req'[w].pc = "done"
                 /\ materials'[req'[w].mat].seller_id # req'[w].user) =>
               CopiesIn(<<req'[w].user, req'[w].mat>>, cart') = 1
        /\ \A row \in DOMAIN cart' : cart'[row] = 1
      ]_vars

\* The second of two add_to_cart(U, M) has been answered "already there".
C7_Witness ==
    \E w \in Workers :
        /\ req[w].op = "add_to_cart" /\ req[w].status = "info"
        /\ CopiesIn(<<req[w].user, req[w].mat>>, cart) = 1

\* C8: a successful checkout raises the total_earnings of every user S by
\* exactly 80% of the sum of the prices, at that moment, of S's materials
\* in the buyer's cart (by nothing for a user with none). total_earnings
\* is in hundredths: 80% of x is 4/5 of 100 * x.
C8_SellerEarnsEightyPercent ==
    [][ \A w \in Workers :
          (req[w].op = "checkout" /\ req[w].pc # "done" /\ req'[w].status = "success") =>
            \A s \in Users :
               LET mine == {m \in CartOf(req[w].user) : materials[m].seller_id = s}
                   sold == SumOver([m \in mine |-> materials[m].price], mine)
               IN 5 * (total_earnings'[s] - total_earnings[s]) = 4 * (100 * sold)
      ]_vars

\* A checkout of two materials of one seller has succeeded.
C8_Witness ==
    \E w \in Workers :
        /\ req[w].op = "checkout" /\ req[w].status = "success"
        /\ \E i, j \in ItemsOf(req[w].order) :
              /\ i # j
              /\ materials[order_items[i].material_id].seller_id
                    = materials[order_items[j].material_id].seller_id

\* C9: review entitlement is purchase-only. An add_review(U, M) by a user
\* without a completed purchase of M is refused and changes nothing; every
\* Review is by a purchaser of its material and never by its seller.
C9_ReviewPurchaseOnly ==
    [][ /\ \A w \in Workers :
             (req[w].pc = "idle" /\ req'[w].op = "add_review"
                 /\ ~Purchased(req'[w].user, req'[w].mat)) =>
               /\ req'[w].pc = "done" /\ req'[w].status = "not_entitled"
               /\ UNCHANGED db
        /\ \A i \in DOMAIN reviews' :
             /\ \E o \in DOMAIN orders', k \in DOMAIN order_items' :
                  /\ orders'[o].buyer_id = reviews'[i].reviewer_id
                  /\ orders'[o].status = "completed"
                  /\ order_items'[k].order_id = o
                  /\ order_items'[k].material_id = reviews'[i].material_id
             /\ materials'[reviews'[i].material_id].seller_id # reviews'[i].reviewer_id
      ]_vars

\* The seller of a material that a buyer has purchased is refused a review
\* of it.
C9_Witness ==
    \E w \in Workers :
        /\ req[w].op = "add_review" /\ req[w].status = "not_entitled"
        /\ materials[req[w].mat].seller_id = req[w].user
        /\ \E u \in Users : Purchased(u, req[w].mat)

\* C10: concurrent checkouts never spend a cart row twice. Every checkout
\* that succeeds, in any interleaving, creates one OrderItem per material
\* it bought, each for a row that is in the buyer's cart when it commits
\* and that the commit removes, and credits each seller once per such item;
\* so of two checkouts over the same cart rows at most one succeeds.
C10_NoDoubleSpend ==
    [][ \A w \in Workers :
          (req[w].op = "checkout" /\ req[w].pc # "done" /\ req'[w].status = "success") =>
            LET u == req[w].user
                added == DOMAIN order_items' \ DOMAIN order_items
            IN /\ added # {}
               /\ \A i \in added :
                    /\ CopiesIn(<<u, order_items'[i].material_id>>, cart) = 1
                    /\ CopiesIn(<<u, order_items'[i].material_id>>, cart') = 0
               /\ \A i, j \in added :
                    order_items'[i].material_id = order_items'[j].material_id => i = j
               /\ \A s \in Users :
                    LET mine == {i \in added :
                                   materials[order_items'[i].material_id].seller_id = s}
                        sold == SumOver([i \in mine |-> order_items'[i].price], mine)
                    IN 5 * (total_earnings'[s] - total_earnings[s]) = 4 * (100 * sold)
      ]_vars

\* Two checkouts of one user had loaded the same cart row: one has
\* succeeded and the other has been rolled back.
C10_Witness ==
    \E w, v \in Workers :
        /\ w # v
        /\ req[w].op = "checkout" /\ req[v].op = "checkout"
        /\ req[w].user = req[v].user
        /\ req[w].status = "success" /\ req[v].status = "error"
        /\ DOMAIN req[w].snap \cap DOMAIN req[v].snap # {}

\* The database of InitPurchased is one the purchase flow produces.
PurchasedDb ==
    /\ materials = <<[NewMaterial(1, 10) EXCEPT !.downloads = 2], NewMaterial(2, 25)>>
    /\ total_earnings = [u \in Users |-> IF u = 1 THEN 2 * 10 * RevenueSharePct ELSE 0]
    /\ cart = EmptyBag
    /\ orders = <<NewOrder(2, 10), NewOrder(3, 10)>>
    /\ order_items = <<NewOrderItem(1, 1, 10), NewOrderItem(2, 1, 10)>>
    /\ reviews = <<>>
    /\ \A w \in Workers : IsIdle(w)

\* C11: two concurrent add_review requests of one (user, material) pair
\* never both succeed: at most one Review of a pair is ever persisted.
C11_OneReviewPerPair ==
    \A i, j \in DOMAIN reviews :
        (/\ reviews[i].material_id = reviews[j].material_id
         /\ reviews[i].reviewer_id = reviews[j].reviewer_id) => i = j

\* C12: historical orders are frozen. An edit_material (price change
\* included) or delete_material request leaves every Order, with its
\* total_amount, and every OrderItem, with its price, as they were; the cart
\* rows stay, and the live total of a cart changes by exactly the price
\* change of the edited material when the cart holds it, and not otherwise.
C12_HistoricalOrdersFrozen ==
    [][\A w \in Workers :
        (IsIdle(w) /\ req'[w].op \in {"edit_material", "delete_material"}) =>
            /\ orders' = orders
            /\ order_items' = order_items
            /\ cart' = cart
            /\ \A u \in Users :
                 CartTotal(u)' - CartTotal(u) =
                    IF req'[w].mat \in CartOf(u)
                      THEN materials'[req'[w].mat].price - materials[req'[w].mat].price
                      ELSE 0]_vars

\* A seller has just changed the price of a material that was sold at
\* another price and that lies in a cart.
C12_Witness ==
    \E w \in Workers, i \in DOMAIN order_items, u \in Users :
        /\ req[w].pc = "done" /\ req[w].op = "edit_material" /\ req[w].status = "success"
        /\ order_items[i].material_id = req[w].mat
        /\ order_items[i].price # materials[req[w].mat].price
        /\ orders[order_items[i].order_id].total_amount = order_items[i].price
        /\ req[w].mat \in CartOf(u)
        /\ CartTotal(u) = materials[req[w].mat].price

\* C13: a checkout request of a user whose cart is empty fails with the
\* empty-cart error and changes nothing in the database (no Order, no
\* OrderItem, no downloads counter, no total_earnings), and every Order
\* has at least one OrderItem.
C13_EmptyCartCheckoutFails ==
    [][/\ \A w \in Workers :
            (IsIdle(w) /\ req'[w].op = "checkout" /\ CartOf(req'[w].user) = {}) =>
                /\ req'[w].pc = "done" /\ req'[w].status = "error"
                /\ UNCHANGED db
       /\ \A o \in DOMAIN orders' :
            \E k \in DOMAIN order_items' : order_items'[k].order_id = o]_vars

\* A user who has an order already was refused a checkout of an empty cart.
C13_Witness ==
    \E w \in Workers :
        /\ req[w].pc = "done" /\ req[w].op = "checkout" /\ req[w].status = "error"
        /\ CartOf(req[w].user) = {} /\ DOMAIN req[w].snap = {}
        /\ \E o \in DOMAIN orders : orders[o].buyer_id = req[w].user /\ ItemsOf(o) # {}

\* C14: an add_review request whose rating is missing or is not an integer
\* of 1..5 is rejected and persists nothing: the request's first step
\* writes nothing and either ends the request or carries on with a rating
\* of 1..5, a request that ended there writes nothing later, and every
\* persisted Review has a rating of 1..5.
C14_InvalidRatingRejected ==
    [][/\ \A w \in Workers :
            (IsIdle(w) /\ req'[w].op = "add_review") =>
                /\ UNCHANGED db
                /\ req'[w].pc # "done" => req'[w].val \in MinRating..MaxRating
       /\ \A w \in Workers :
            (req[w].pc = "done" /\ req[w].op = "add_review" /\ req'[w] # req[w]) =>
                UNCHANGED db
       /\ \A i \in DOMAIN reviews' : reviews'[i].rating \in MinRating..MaxRating]_vars

\* A buyer who had not reviewed the material was refused for the rating
\* alone, and the material is still unrated.
C14_Witness ==
    \E w \in Workers :
        /\ req[w].pc = "done" /\ req[w].op = "add_review" /\ req[w].status = "invalid"
        /\ Purchased(req[w].user, req[w].mat)
        /\ ~Reviewed(req[w].user, req[w].mat)
        /\ materials[req[w].mat].rating_count = 0
        /\ ReviewsOf(req[w].mat) = {}

\* C15: no step of any request lowers the total_earnings of any user.
C15_EarningsNeverDecrease ==
    [][\A u \in Users : total_earnings'[u] >= total_earnings[u]]_vars

\* C16: under concurrent add_review requests of different buyers for one
\* material (no buyer has two Reviews of it), once every request has
\* completed, the material's rating is the mean of its persisted Reviews and
\* its rating_count is their number.
C16_ConcurrentRatingConsistent ==
    (/\ \A w \in Workers : req[w].pc \in {"idle", "done"}
     /\ \A i, j \in DOMAIN reviews :
            (/\ reviews[i].material_id = reviews[j].material_id
             /\ reviews[i].reviewer_id = reviews[j].reviewer_id) => i = j) =>
        \A m \in DOMAIN materials :
            LET n == Cardinality(ReviewsOf(m))
                total == SumOver([i \in ReviewsOf(m) |-> reviews[i].rating], ReviewsOf(m))
                rating == materials[m].rating
            IN /\ materials[m].rating_count = n
               /\ IF n = 0 THEN rating[1] = 0
                           ELSE rating[1] * n = total * rating[2]

\* C17: purchase-based downloads are counted without loss, in any
\* interleaving: every download_material request of a buyer that completes
\* raises the download_count of the buyer's OrderItem by exactly one (so N
\* completed requests raise it by N), no step lowers a download_count, and
\* a download by the seller writes nothing.
C17_DownloadsCountedWithoutLoss ==
    [][/\ \A w \in Workers :
            (req[w].pc = "download_count" /\ req'[w].pc = "done") =>
                order_items'[req[w].item].download_count =
                    order_items[req[w].item].download_count + 1
       /\ \A i \in DOMAIN order_items :
            order_items'[i].download_count >= order_items[i].download_count
       /\ \A w \in Workers :
            (/\ IsIdle(w) /\ req'[w].op = "download_material"
             /\ materials[req'[w].mat].seller_id = req'[w].user) =>
                req'[w].status = "served" /\ UNCHANGED db]_vars


====
